---- MODULE Spec2Model ----
(***************************************************************************)
(* A model of the lrn road-network core (src/src/math.rs): the textual     *)
(* parsers (Identifier, Mask, LogicalAddress, Route), network construction *)
(* (loader and NetworkBuilder, spanning tree, routing table) and the       *)
(* queries (route, evaluate_route).                                        *)
(*                                                                         *)
(* A string is a sequence of one-character strings.  A Rust panic is an    *)
(* outcome of its own (tag "Panic"), never an Ok or an Err value.          *)
(***************************************************************************)
EXTENDS Integers, Sequences, FiniteSets, TLC

VARIABLES pc, input, output, network, builder, eval, walk

vars == <<pc, input, output, network, builder, eval, walk>>

(***************************************************************************)
(* Bounds of the model.                                                    *)
(***************************************************************************)
\* Longest identifier text drawn: "1.1.1.-1" has 8 characters.
MaxIdLen == 8
\* Most pattern pairs in a route text drawn.
MaxPairs == 2
MaxJunctions == 3
MaxLinks == 2
MaxPatterns == 2
MaxPasses == 3
MaxHops == 3

(***************************************************************************)
(* Characters and the integer parsers of the standard library.             *)
(***************************************************************************)
Digits == {"0", "1", "2", "3", "4", "5", "6", "7", "8", "9"}

\* char::is_digit(10)
IsDigit(c) == c \in Digits

DigitVal(c) ==
    CASE c = "0" -> 0 [] c = "1" -> 1 [] c = "2" -> 2 [] c = "3" -> 3
      [] c = "4" -> 4 [] c = "5" -> 5 [] c = "6" -> 6 [] c = "7" -> 7
      [] c = "8" -> 8 [] c = "9" -> 9

\* &str[a..b] with 0-based, end-exclusive offsets (a <= b <= len).
Slice(s, a, b) == SubSeq(s, a + 1, b)

AllDigits(s) == \A k \in 1..Len(s) : IsDigit(s[k])

RECURSIVE DecimalValue(_)
DecimalValue(s) ==
    IF s = <<>> THEN 0
    ELSE 10 * DecimalValue(SubSeq(s, 1, Len(s) - 1)) + DigitVal(s[Len(s)])

None == [tag |-> "None"]
Some(v) == [tag |-> "Some", val |-> v]

U16Max == 65535
I16Max == 32767
I16Min == -32768
U8Max == 255

\* str::parse for an integer type with range lo..hi: an optional sign ('-' only
\* for a signed type), then at least one digit, the value within the range.
ParseInt(s, lo, hi) ==
    LET signed == lo < 0
        hasSign == s # <<>> /\ (s[1] = "+" \/ (s[1] = "-" /\ signed))
        body == IF hasSign THEN Tail(s) ELSE s
        mag == DecimalValue(body)
        val == IF hasSign /\ s[1] = "-" THEN 0 - mag ELSE mag
    IN  IF body # <<>> /\ AllDigits(body) /\ val >= lo /\ val <= hi
        THEN Some(val) ELSE None

ParseU16(s) == ParseInt(s, 0, U16Max)
ParseI16(s) == ParseInt(s, I16Min, I16Max)

\* Option::unwrap_or
UnwrapOr(o, d) == IF o.tag = "Some" THEN o.val ELSE d

(***************************************************************************)
(* Identifier::parse                                                       *)
(***************************************************************************)
\* A mutation: the empty id reported with the message of the minus sign.
ErrEmptyId_Minus == "Expected whole number, got minus sign"
ErrMinus == "Expected whole number, got minus sign"
ErrEmptyId == "Expected some content before the '/'"

Ok(v) == [tag |-> "Ok", val |-> v]
Err(m) == [tag |-> "Err", msg |-> m]
Panic == [tag |-> "Panic"]

\* The locals of Identifier::parse before the loop; `ret` is set once the
\* function has returned early or panicked.
IdInit ==
    [link |-> 0, tile |-> 0, segment |-> 0, lane |-> 0, state |-> "Initial",
     digits_start |-> 0, digits_end |-> 0, i |-> 0, allow_negative |-> FALSE,
     index |-> 0, ret |-> None]

\* A mutation: the minus sign allowed in every field.
AllowNegative_Always(prev, i) == TRUE

\* `if i == 3 { allow_negative = true; }` after a field is stored.
AllowNegative(prev, i) == prev \/ i = 3

\* The '.' branch of FoundDigit with i < 4: store the field, move to the next.
IdStoreField(st, str) ==
    LET digits == Slice(str, st.digits_start, st.digits_end)
        st1 == CASE st.i = 0 -> [st EXCEPT !.link = UnwrapOr(ParseU16(digits), 0)]
                 [] st.i = 1 -> [st EXCEPT !.tile = UnwrapOr(ParseU16(digits), 0)]
                 [] st.i = 2 -> [st EXCEPT !.segment = UnwrapOr(ParseU16(digits), 0)]
                 [] st.i = 3 -> [st EXCEPT !.lane = UnwrapOr(ParseI16(digits), 0)]
    IN  [st1 EXCEPT !.i = st.i + 1,
                    !.allow_negative = AllowNegative(st.allow_negative, st.i + 1),
                    !.digits_start = 0, !.digits_end = 0, !.state = "Initial"]

\* One iteration of `for c in str.chars()`; index += 1 closes the iteration.
\* The break of the Accepted state is the `brk` flag.
IdStep(st, str, c) ==
    LET body ==
          CASE st.state = "Initial" ->
                 IF IsDigit(c) \/ (c = "-" /\ st.allow_negative)
                 THEN [st EXCEPT !.digits_start = st.index,
                                 !.digits_end = st.index + 1,
                                 !.state = "FoundDigit"]
                 ELSE IF c = "-" THEN [st EXCEPT !.ret = Some(Err(ErrMinus))]
                 ELSE st
            [] st.state = "FoundDigit" ->
                 IF IsDigit(c) THEN [st EXCEPT !.digits_end = st.digits_end + 1]
                 ELSE IF c = "."
                      THEN IF st.i < 4 THEN IdStoreField(st, str)
                           ELSE [st EXCEPT !.state = "Accepted"]
                      ELSE st
            [] st.state = "Accepted" -> [st EXCEPT !.state = "Break"]
    IN  IF body.ret.tag # "None" \/ body.state = "Break" THEN body
        ELSE [body EXCEPT !.index = st.index + 1]

RECURSIVE IdLoop(_, _, _)
IdLoop(st, str, k) ==
    IF k > Len(str) \/ st.ret.tag # "None" \/ st.state = "Break" THEN st
    ELSE IdLoop(IdStep(st, str, str[k]), str, k + 1)

\* A mutation: the digits pending at the end of the text are never stored.
IdFinish_Skip(st, str) == st

\* The lane left in FoundDigit at the end of the text; parse::<i16>().unwrap().
IdFinish(st, str) ==
    IF st.state = "FoundDigit" /\ st.i = 3
    THEN LET lane == ParseI16(Slice(str, st.digits_start, st.digits_end))
         IN  IF lane.tag = "None" THEN [st EXCEPT !.ret = Some(Panic)]
             ELSE [st EXCEPT !.lane = lane.val]
    ELSE st

Identifier_parse(str) ==
    LET st == IdLoop(IdInit, str, 1)
    IN  IF st.ret.tag # "None" THEN st.ret.val
        ELSE LET fin == IdFinish(st, str)
             IN  IF fin.ret.tag # "None" THEN fin.ret.val
                 ELSE Ok([link |-> fin.link, tile |-> fin.tile,
                          segment |-> fin.segment, lane |-> fin.lane])

(***************************************************************************)
(* Mask::parse                                                             *)
(***************************************************************************)
MaskInit == [flags |-> <<TRUE, TRUE, TRUE, TRUE>>, state |-> "Initial", i |-> 0]

MaskStep(st, c) ==
    CASE st.state = "Initial" ->
           IF IsDigit(c)
           THEN IF st.i < 4
                THEN [st EXCEPT !.flags[st.i + 1] = (DigitVal(c) # 0),
                                !.state = "FoundDigit", !.i = st.i + 1]
                ELSE [st EXCEPT !.state = "Accepted"]
           ELSE st
      [] st.state = "FoundDigit" ->
           IF c = "." THEN [st EXCEPT !.state = "Initial"] ELSE st
      [] st.state = "Accepted" -> [st EXCEPT !.state = "Break"]

RECURSIVE MaskLoop(_, _, _)
MaskLoop(st, str, k) ==
    IF k > Len(str) \/ st.state = "Break" THEN st
    ELSE MaskLoop(MaskStep(st, str[k]), str, k + 1)

Mask_parse(str) ==
    LET st == MaskLoop(MaskInit, str, 1)
    IN  [link |-> st.flags[1], tile |-> st.flags[2],
         segment |-> st.flags[3], lane |-> st.flags[4]]

(***************************************************************************)
(* LogicalAddress::parse                                                   *)
(***************************************************************************)
\* str::split(sep): the pieces between separators; never empty.
RECURSIVE SplitOn(_, _)
SplitOn(s, sep) ==
    IF \E k \in 1..Len(s) : s[k] = sep
    THEN LET k == CHOOSE j \in 1..Len(s) :
                      s[j] = sep /\ \A m \in 1..(j - 1) : s[m] # sep
         IN  <<SubSeq(s, 1, k - 1)>> \o SplitOn(SubSeq(s, k + 1, Len(s)), sep)
    ELSE <<s>>

\* A mutation: a mask that clears the link flag stands in for an absent one.
DefaultMask_Zero == <<"0">>

DefaultMask == <<"1", ".", "1", ".", "1", ".", "1">>

LogicalAddress_parse(text) ==
    LET parts == SplitOn(text, "/")
        id == parts[1]
        mask == IF Len(parts) >= 2 THEN parts[2] ELSE DefaultMask
        parsed == Identifier_parse(id)
    IN  IF id = <<>> THEN Err(ErrEmptyId)
        ELSE IF parsed.tag # "Ok" THEN parsed
        ELSE Ok([id |-> parsed.val, mask |-> Mask_parse(mask)])

(***************************************************************************)
(* Route grammar: Turn, TurnMultiplicity, TurningPattern (FromStr).        *)
(***************************************************************************)
\* char::is_whitespace, for the characters the texts drawn hold.
IsWhitespace(c) == c = " "

\* str::trim_start
RECURSIVE TrimStart(_)
TrimStart(s) ==
    IF s # <<>> /\ IsWhitespace(s[1]) THEN TrimStart(Tail(s)) ELSE s

\* str::split_whitespace: the maximal runs of non-whitespace, in order.
RECURSIVE SplitWhitespace(_)
SplitWhitespace(s) ==
    LET t == TrimStart(s)
    IN  IF t = <<>> THEN <<>>
        ELSE LET n == CHOOSE k \in 1..Len(t) :
                          /\ \A m \in 1..k : ~IsWhitespace(t[m])
                          /\ (k = Len(t) \/ IsWhitespace(t[k + 1]))
             IN  <<SubSeq(t, 1, n)>> \o SplitWhitespace(SubSeq(t, n + 1, Len(t)))

\* slice::chunks(2)
RECURSIVE Chunks2(_)
Chunks2(parts) ==
    IF parts = <<>> THEN <<>>
    ELSE IF Len(parts) = 1 THEN <<parts>>
    ELSE <<SubSeq(parts, 1, 2)>> \o Chunks2(SubSeq(parts, 3, Len(parts)))

\* [&str]::join(" ")
RECURSIVE JoinSpace(_)
JoinSpace(chunk) ==
    IF chunk = <<>> THEN <<>>
    ELSE IF Len(chunk) = 1 THEN chunk[1]
    ELSE chunk[1] \o <<" ">> \o JoinSpace(Tail(chunk))

\* str::parse::<u8>
ParseU8(s) == ParseInt(s, 0, U8Max)

RECURSIVE StripZeros(_)
StripZeros(s) == IF Len(s) > 1 /\ s[1] = "0" THEN StripZeros(Tail(s)) ELSE s

\* a <= b for two digit texts of the same length.
RECURSIVE DigitsLeq(_, _)
DigitsLeq(a, b) ==
    IF a = <<>> THEN TRUE
    ELSE IF DigitVal(a[1]) # DigitVal(b[1]) THEN DigitVal(a[1]) < DigitVal(b[1])
    ELSE DigitsLeq(Tail(a), Tail(b))

\* str::parse::<u32>: digits after an optional '+', at most 4294967295.
ParseU32(s) ==
    LET body == IF s # <<>> /\ s[1] = "+" THEN Tail(s) ELSE s
        sig == StripZeros(body)
    IN  IF body # <<>> /\ AllDigits(body)
           /\ (Len(sig) < 10 \/ (Len(sig) = 10 /\ DigitsLeq(sig, <<"4", "2", "9", "4", "9", "6", "7", "2", "9", "5">>)))
        THEN Some(DecimalValue(sig)) ELSE None

I32Max == 2147483647

\* str::parse::<i32>
ParseI32(s) == ParseInt(s, (0 - I32Max) - 1, I32Max)

\* str::parse::<f64> for decimal texts: an optional sign, digits, an optional
\* '.' and digits, with a digit on one side at least.  The value is kept in
\* thousandths; the texts drawn hold at most three decimals, no exponent and
\* none of inf, infinity, nan.
ParseF64(s) ==
    LET hasSign == s # <<>> /\ (s[1] = "+" \/ s[1] = "-")
        body == IF hasSign THEN Tail(s) ELSE s
        parts == SplitOn(body, ".")
        ip == parts[1]
        fp == IF Len(parts) = 2 THEN parts[2] ELSE <<>>
        pad == fp \o SubSeq(<<"0", "0", "0">>, 1, 3 - Len(fp))
        mag == DecimalValue(ip) * 1000 + DecimalValue(pad)
    IN  IF Len(parts) <= 2 /\ AllDigits(ip) /\ AllDigits(fp) /\ Len(fp) <= 3
           /\ (ip # <<>> \/ fp # <<>>)
        THEN Some(IF hasSign /\ s[1] = "-" THEN 0 - mag ELSE mag)
        ELSE None

\* impl FromStr for TurnDirection
TurnDirection_from_str(s) ==
    CASE s = <<"L", "e", "f", "t">> -> Ok("Left")
      [] s = <<"R", "i", "g", "h", "t">> -> Ok("Right")
      [] s = <<"S", "t", "r", "a", "i", "g", "h", "t">> -> Ok("Straight")
      [] s = <<"U", "T", "u", "r", "n">> -> Ok("UTurn")
      [] OTHER -> Err("invalid turn direction")

\* impl FromStr for CompassDirection
CompassDirection_from_str(s) ==
    CASE s = <<"N", "o", "r", "t", "h">> -> Ok("North")
      [] s = <<"N", "o", "r", "t", "h", "E", "a", "s", "t">> -> Ok("NorthEast")
      [] s = <<"E", "a", "s", "t">> -> Ok("East")
      [] s = <<"S", "o", "u", "t", "h", "E", "a", "s", "t">> -> Ok("SouthEast")
      [] s = <<"S", "o", "u", "t", "h">> -> Ok("South")
      [] s = <<"S", "o", "u", "t", "h", "W", "e", "s", "t">> -> Ok("SouthWest")
      [] s = <<"W", "e", "s", "t">> -> Ok("West")
      [] s = <<"N", "o", "r", "t", "h", "W", "e", "s", "t">> -> Ok("NorthWest")
      [] OTHER -> Err("invalid compass direction")

\* Result::unwrap / Option::unwrap on the argument of a turn: a value or a panic.
TurnOf(kind, parsed) ==
    IF parsed.tag \in {"Ok", "Some"} THEN Ok([kind |-> kind, arg |-> parsed.val])
    ELSE Panic

\* impl FromStr for Turn
Turn_from_str(s) ==
    LET parts == SplitOn(s, ":")
    IN  IF Len(parts) = 2
        THEN CASE parts[1] = <<"R", "e", "l", "a", "t", "i", "v", "e">> ->
                    TurnOf("Relative", TurnDirection_from_str(parts[2]))
               [] parts[1] = <<"C", "o", "m", "p", "a", "s", "s">> ->
                    TurnOf("Compass", CompassDirection_from_str(parts[2]))
               [] parts[1] = <<"E", "x", "i", "t">> -> TurnOf("Exit", ParseU8(parts[2]))
               [] parts[1] = <<"H", "e", "a", "d", "i", "n", "g">> -> TurnOf("Heading", ParseU32(parts[2]))
               [] OTHER -> Err("Invalid turn")
        ELSE Err("Invalid Turn format")

\* impl FromStr for TurnMultiplicity
TurnMultiplicity_from_str(s) ==
    LET parts == SplitOn(s, ":")
    IN  IF Len(parts) = 2 /\ parts[1] = <<"C", "o", "u", "n", "t">>
        THEN LET count == ParseU32(parts[2])
             IN  IF count.tag = "Some" THEN Ok([kind |-> "Count", n |-> count.val])
                 ELSE Panic
        ELSE IF Len(parts) = 1 /\ parts[1] = <<"A", "l", "w", "a", "y", "s">>
        THEN Ok([kind |-> "Always"])
        ELSE Err("invalid turn multiplicity")

\* impl FromStr for TurningPattern: both fields are unwrapped, the turn first.
TurningPattern_from_str(s) ==
    LET parts == SplitWhitespace(s)
    IN  IF Len(parts) = 2
        THEN LET turn == Turn_from_str(parts[1])
                 count == TurnMultiplicity_from_str(parts[2])
             IN  IF turn.tag # "Ok" \/ count.tag # "Ok" THEN Panic
                 ELSE Ok([turn |-> turn.val, count |-> count.val])
        ELSE Err("invalid turn pattern")

(***************************************************************************)
(* Route::parse                                                            *)
(***************************************************************************)
\* Route::empty
Route_empty ==
    [start_link |-> 0, offset |-> 0, distance |-> 0, trav_dir |-> 1,
     patterns |-> <<>>]

\* The locals of Route::parse before the loop.
RouteInit ==
    [start |-> 0, end |-> 0, state |-> "ParsingStartLink",
     next_state |-> "ParsingStartLink", retval |-> Route_empty,
     panicked |-> FALSE]

\* input[a..b], input[a..=b] and input[a..] are in range (they panic otherwise).
RangeOk(s, a, b) == a <= b /\ b <= Len(s)

\* The loop over chunks(2) of the ParsingTurnPattern state: each chunk joined
\* and parsed, an Ok pattern pushed; a panic ends the parse.
RECURSIVE PushChunks(_, _)
PushChunks(st, chunks) ==
    IF chunks = <<>> \/ st.panicked THEN st
    ELSE LET turn == TurningPattern_from_str(JoinSpace(chunks[1]))
         IN  PushChunks(
                 CASE turn.tag = "Ok" ->
                        [st EXCEPT !.retval.patterns = Append(@, turn.val)]
                   [] turn.tag = "Panic" -> [st EXCEPT !.panicked = TRUE]
                   [] OTHER -> st,
                 Tail(chunks))

\* One iteration of `for c in input.chars()`.
RouteStep(st, text, c) ==
    CASE st.state = "ParsingStartLink" ->
           IF ~IsWhitespace(c) THEN [st EXCEPT !.end = st.end + 1]
           ELSE IF ~RangeOk(text, 0, st.end) THEN [st EXCEPT !.panicked = TRUE]
           ELSE [st EXCEPT
                   !.retval.start_link =
                       UnwrapOr(ParseU16(Slice(text, 0, st.end)), 0),
                   !.start = st.end + 1, !.end = st.end + 1,
                   !.state = "ParsingSpace", !.next_state = "ParsingOffset"]
      [] st.state = "ParsingSpace" ->
           IF IsWhitespace(c) THEN [st EXCEPT !.start = st.start + 1]
           ELSE [st EXCEPT !.state = st.next_state, !.end = st.start]
      [] st.state = "ParsingOffset" ->
           IF ~IsWhitespace(c) THEN [st EXCEPT !.end = st.end + 1]
           ELSE IF ~RangeOk(text, st.start, st.end + 1)
           THEN [st EXCEPT !.panicked = TRUE]
           ELSE [st EXCEPT
                   !.retval.offset =
                       UnwrapOr(ParseF64(TrimStart(
                           Slice(text, st.start, st.end + 1))), 0),
                   !.start = st.end + 2, !.end = st.end + 2,
                   !.state = "ParsingSpace", !.next_state = "ParsingDistance"]
      [] st.state = "ParsingDistance" ->
           IF ~IsWhitespace(c) THEN [st EXCEPT !.end = st.end + 1]
           ELSE IF ~RangeOk(text, st.start, st.end + 1)
           THEN [st EXCEPT !.panicked = TRUE]
           ELSE [st EXCEPT
                   !.retval.distance =
                       UnwrapOr(ParseF64(TrimStart(
                           Slice(text, st.start, st.end + 1))), 0),
                   !.start = st.end + 2,
                   !.state = "ParsingSpace", !.next_state = "ParsingTravDir"]
      [] st.state = "ParsingTravDir" ->
           IF ~IsWhitespace(c) THEN [st EXCEPT !.end = st.end + 1]
           ELSE IF ~RangeOk(text, st.start, st.end + 1)
           THEN [st EXCEPT !.panicked = TRUE]
           ELSE [st EXCEPT
                   !.retval.trav_dir =
                       UnwrapOr(ParseI32(TrimStart(
                           Slice(text, st.start, st.end + 1))), 0),
                   !.start = st.end + 2,
                   !.state = "ParsingSpace",
                   !.next_state = "ParsingTurnPattern"]
      [] st.state = "ParsingTurnPattern" ->
           IF ~RangeOk(text, st.start, Len(text))
           THEN [st EXCEPT !.panicked = TRUE]
           ELSE PushChunks(
                    [st EXCEPT !.state = "ParsingFinished"],
                    Chunks2(SplitWhitespace(Slice(text, st.start, Len(text)))))
      [] st.state = "ParsingFinished" -> st

RECURSIVE RouteLoop(_, _, _)
RouteLoop(st, text, k) ==
    IF k > Len(text) \/ st.panicked THEN st
    ELSE RouteLoop(RouteStep(st, text, text[k]), text, k + 1)

\* `match state` after the loop: only a distance or a pattern left at the end
\* of the text is parsed.
RouteFinish(st, text) ==
    CASE st.state = "ParsingDistance" ->
           IF ~RangeOk(text, st.start, st.end + 1)
           THEN [st EXCEPT !.panicked = TRUE]
           ELSE [st EXCEPT !.retval.distance =
                     UnwrapOr(ParseF64(TrimStart(
                         Slice(text, st.start, st.end + 1))), 0)]
      [] st.state = "ParsingTurnPattern" ->
           IF ~RangeOk(text, st.start, st.end + 1)
           THEN [st EXCEPT !.panicked = TRUE]
           ELSE PushChunks(st,
                    <<<<TrimStart(Slice(text, st.start, st.end + 1))>>>>)
      [] OTHER -> st

Returned(v) == [tag |-> "Return", val |-> v]

Route_parse(raw) ==
    LET text == TrimStart(raw)
        st == RouteLoop(RouteInit, text, 1)
        fin == IF st.panicked THEN st ELSE RouteFinish(st, text)
    IN  IF fin.panicked THEN Panic ELSE Returned(fin.retval)

(****************************************************************************)
(* The road network: links, junctions and their exits, tiles and segments,  *)
(* the spanning tree and the routing table (math.rs, struct Network).       *)
(*                                                                          *)
(* A Vec is a sequence; an index i of the source is position i + 1 here.  An *)
(* Rc or Weak to a junction is the junction's position in Network.junctions, *)
(* one to a spanning node is the node's position in the tree's node sequence *)
(* (0 for Weak::new()).  Headings are whole degrees.                        *)
(****************************************************************************)

\* usize::MAX, the "no exit" index; every real index is far below it.
usize_MAX == 2147483647

Abs(x) == IF x < 0 THEN 0 - x ELSE x

Last(s) == s[Len(s)]

Exit(link_id, exit) == [link_id |-> link_id, exit |-> exit]

Junction_new(id) == [id |-> id, links |-> <<>>]

Junction_from_query(id) == [id |-> id, links |-> <<>>]

Junction_add_link(junc, id, exit_id) ==
    [junc EXCEPT !.links = Append(@, Exit(id, exit_id))]

Link_new(id) == [id |-> id, origin |-> None, destination |-> None]

Link_from_query(id, origin, destination) ==
    [id |-> id, origin |-> Some(origin), destination |-> Some(destination)]

Tile_from_query(id, link) == [id |-> id, link |-> link]

Segment_from_query(tile, h) == [tile |-> tile, h |-> h]

Hop_from(junction, dest_junc, exit) ==
    [junction |-> junction, dest_junc |-> dest_junc, exit |-> exit]

SpanningNode_new(parent, junc) ==
    [children |-> <<>>, parent |-> parent, value |-> junc]

SpanningNode_empty == SpanningNode_new(0, None)

\* Junction::reciprocal
Junction_reciprocal(entry) ==
    LET value == entry + 180
    IN  IF value >= 360 THEN value % 360 ELSE value

\* find_reciprocal_heading: only values of 360 and more are brought down.
find_reciprocal_heading(heading) ==
    LET reciprocal_heading == heading + 180
    IN  IF reciprocal_heading >= 360 THEN reciprocal_heading % 360
        ELSE reciprocal_heading

hemisphere(degrees) ==
    LET angle == degrees % 360
    IN  IF angle < 90 \/ (angle >= 270 /\ angle < 360) THEN 0 ELSE 1

\* f64::MAX, the closest delta before any exit was seen; every delta between
\* headings is far below it.
f64_MAX == 2147483647

\* `heading as u32` of an f64: a negative value saturates to 0.
AsU32(heading) == IF heading < 0 THEN 0 ELSE heading

\* `delta < closest_delta`: only a strictly smaller delta replaces the
\* closest so far.
Closer_OrEqual(delta, closest_delta) == delta <= closest_delta

Closer(delta, closest_delta) == delta < closest_delta

\* The loop of Junction::find_entry from exit i on.
RECURSIVE find_entry_loop(_, _, _, _, _)
find_entry_loop(junc, reciprocal_heading, i, closest_delta, closest_index) ==
    IF i >= Len(junc.links) THEN closest_index
    ELSE LET exit == junc.links[i + 1].exit
             delta == Abs(exit - reciprocal_heading)
         IN  IF Closer(delta, closest_delta)
             THEN find_entry_loop(junc, reciprocal_heading, i + 1, delta, i)
             ELSE find_entry_loop(junc, reciprocal_heading, i + 1,
                                  closest_delta, closest_index)

\* Junction::find_entry
find_entry(junc, heading) ==
    find_entry_loop(junc, find_reciprocal_heading(heading), 0, f64_MAX, 0)

\* `exit_hemi == heading_hemi`
SameHemi_Any(exit_hemi, heading_hemi) == TRUE

SameHemi(exit_hemi, heading_hemi) == exit_hemi = heading_hemi

\* The loop of Junction::find_exit_from_heading from exit i on.
RECURSIVE find_exit_from_heading_loop(_, _, _, _, _)
find_exit_from_heading_loop(junc, heading, i, closest_delta, exit_index) ==
    IF i >= Len(junc.links) THEN exit_index
    ELSE LET exit == junc.links[i + 1].exit
             delta == Abs(exit - heading)
             exit_hemi == hemisphere(exit)
             heading_hemi == hemisphere(AsU32(heading))
         IN  IF Closer(delta, closest_delta) /\ SameHemi(exit_hemi, heading_hemi)
             THEN find_exit_from_heading_loop(junc, heading, i + 1, delta, i)
             ELSE find_exit_from_heading_loop(junc, heading, i + 1,
                                              closest_delta, exit_index)

\* Junction::find_exit_from_heading
find_exit_from_heading(junc, heading) ==
    find_exit_from_heading_loop(junc, heading, 0, f64_MAX, usize_MAX)

\* The % of Rust on i32: the remainder takes the sign of the dividend.
RemTrunc_Abs(a, b) == Abs(a) % b

RemTrunc(a, b) == IF a >= 0 THEN a % b ELSE 0 - ((0 - a) % b)

\* Junction::find_relative_exit: the remainder by the number of exits panics
\* when there is none.
find_relative_exit_Unfolded(junc, entry_index, relative_exit) ==
    IF Len(junc.links) = 0 THEN Panic
    ELSE Ok(entry_index + relative_exit)

find_relative_exit(junc, entry_index, relative_exit) ==
    IF Len(junc.links) = 0 THEN Panic
    ELSE LET exit_index == RemTrunc(entry_index - relative_exit, Len(junc.links))
         IN  Ok(IF exit_index < 0 THEN exit_index + Len(junc.links)
                ELSE exit_index)

\* The heading wanted for a turn, before it is brought into [0, 360).
TurnHeading_Mirrored(entry, turn_dir) ==
    CASE turn_dir = "Straight" -> entry
      [] turn_dir = "Left" -> entry - 90
      [] turn_dir = "Right" -> entry + 90
      [] turn_dir = "UTurn" -> entry + 180

TurnHeading(entry, turn_dir) ==
    CASE turn_dir = "Straight" -> entry
      [] turn_dir = "Left" -> entry + 90
      [] turn_dir = "Right" -> entry - 90
      [] turn_dir = "UTurn" -> entry + 180

\* Junction::find_exit_from_turn_direction: self.links[entry_index] panics when
\* the index is out of range.
find_exit_from_turn_direction(junc, entry_index, turn_dir) ==
    IF entry_index >= Len(junc.links) THEN Panic
    ELSE LET entry == find_reciprocal_heading(junc.links[entry_index + 1].exit)
             heading == TurnHeading(entry, turn_dir)
         IN  Ok(find_exit_from_heading(junc, heading % 360))

\* The heading of a compass direction.
CompassHeading_Clockwise(dir) ==
    CASE dir = "North" -> 0
      [] dir = "NorthEast" -> 45
      [] dir = "East" -> 90
      [] dir = "SouthEast" -> 135
      [] dir = "South" -> 180
      [] dir = "SouthWest" -> 225
      [] dir = "West" -> 270
      [] dir = "NorthWest" -> 315

CompassHeading(dir) ==
    CASE dir = "North" -> 0
      [] dir = "NorthEast" -> 315
      [] dir = "East" -> 270
      [] dir = "SouthEast" -> 270 - 45
      [] dir = "South" -> 180
      [] dir = "SouthWest" -> 180 - 45
      [] dir = "West" -> 90
      [] dir = "NorthWest" -> 45

\* Junction::find_exit_from_compass
find_exit_from_compass(junc, dir) ==
    find_exit_from_heading(junc, CompassHeading(dir))

\* Network::empty
Network_empty ==
    [links |-> <<>>, junctions |-> <<>>, tiles |-> <<>>, segments |-> <<>>,
     routing |-> {}, spanning_tree |-> <<SpanningNode_empty>>]

\* Network::new
Network_new(links, junctions) ==
    [Network_empty EXCEPT !.links = links, !.junctions = junctions]

\* Network::get_link: self.links[(id-1) as usize]; id 0 underflows, an id past
\* the end is out of bounds, and both panic.
get_link(net, id) ==
    IF id >= 1 /\ id <= Len(net.links) THEN Ok(net.links[id]) ELSE Panic

\* Network::get_junc and get_junc_mut: the position, or a panic.
get_junc(net, id) ==
    IF id >= 1 /\ id <= Len(net.junctions) THEN Ok(id) ELSE Panic

\* Network::set_junction_connections
RECURSIVE set_junction_connections(_, _)
set_junction_connections(net, connections) ==
    IF connections = <<>> THEN Ok(net)
    ELSE LET connection == Head(connections)
             junc == get_junc(net, connection[1])
         IN  IF junc.tag = "Panic" THEN Panic
             ELSE set_junction_connections(
                     [net EXCEPT !.junctions[junc.val] =
                         Junction_add_link(@, connection[2], connection[3])],
                     Tail(connections))

\* The (tile, segment) positions whose tile lies on the link.
SegmentsOfLink(net, link) ==
    {ts \in (1 .. Len(net.tiles)) \X (1 .. Len(net.segments)) :
        /\ net.tiles[ts[1]].link = link.id
        /\ net.segments[ts[2]].tile = net.tiles[ts[1]].id}

\* Network::first_segment_for_link
first_segment_for_link(net, link) ==
    LET found == SegmentsOfLink(net, link)
    IN  IF found = {} THEN None
        ELSE LET first == CHOOSE a \in found : \A b \in found :
                              a[1] < b[1] \/ (a[1] = b[1] /\ a[2] <= b[2])
             IN  Some(net.segments[first[2]])

\* Network::last_segment_for_link
last_segment_for_link(net, link) ==
    LET found == SegmentsOfLink(net, link)
    IN  IF found = {} THEN None
        ELSE LET last == CHOOSE a \in found : \A b \in found :
                             a[1] > b[1] \/ (a[1] = b[1] /\ a[2] >= b[2])
             IN  Some(net.segments[last[2]])

\* Network::find_exit, from index i on: the first exit of `from` whose link
\* joins the two junctions, in either direction.
RECURSIVE find_exit_from(_, _, _, _)
find_exit_from(net, from, to, i) ==
    IF i >= Len(from.links) THEN Ok(usize_MAX)
    ELSE LET link == get_link(net, from.links[i + 1].link_id)
         IN  IF link.tag = "Panic" THEN Panic
             ELSE IF link.val.origin.tag = "Some" /\ link.val.destination.tag = "Some"
             THEN LET origin == get_junc(net, link.val.origin.val)
                      dest == get_junc(net, link.val.destination.val)
                  IN  IF origin.tag = "Panic" \/ dest.tag = "Panic" THEN Panic
                      ELSE IF \/ /\ net.junctions[origin.val].id = from.id
                                 /\ net.junctions[dest.val].id = to.id
                              \/ /\ net.junctions[origin.val].id = to.id
                                 /\ net.junctions[dest.val].id = from.id
                      THEN Ok(i)
                      ELSE find_exit_from(net, from, to, i + 1)
             ELSE find_exit_from(net, from, to, i + 1)

find_exit(net, from, to) == find_exit_from(net, from, to, 0)

\* Network::depth_first_traversal_helper.  st carries the visited ids, the
\* junctions handed to junc_func so far, in order, and whether an index
\* panicked; k is the position of the exit the loop is at.
RECURSIVE depth_first_traversal_helper(_, _, _), dft_exits(_, _, _, _)
depth_first_traversal_helper(net, junc, st) ==
    IF st.panicked \/ net.junctions[junc].id \in st.visited THEN st
    ELSE dft_exits(net, junc, 1,
                   [st EXCEPT !.visited = @ \cup {net.junctions[junc].id}])

dft_exits(net, junc, k, st) ==
    IF st.panicked \/ k > Len(net.junctions[junc].links) THEN st
    ELSE LET exit == net.junctions[junc].links[k]
             link == get_link(net, exit.link_id)
         IN  IF link.tag = "Panic" THEN [st EXCEPT !.panicked = TRUE]
             ELSE IF link.val.origin.tag = "Some" /\ link.val.destination.tag = "Some"
             THEN LET destination == get_junc(net, link.val.destination.val)
                      origin == get_junc(net, link.val.origin.val)
                  IN  IF destination.tag = "Panic" \/ origin.tag = "Panic"
                      THEN [st EXCEPT !.panicked = TRUE]
                      ELSE IF net.junctions[destination.val].id \notin st.visited
                      THEN dft_exits(net, junc, k + 1,
                              depth_first_traversal_helper(net, destination.val,
                                  [st EXCEPT !.calls = Append(@, destination.val)]))
                      ELSE dft_exits(net, junc, k + 1, st)
             ELSE dft_exits(net, junc, k + 1, st)

\* Network::depth_first_traversal: the junctions handed to junc_func, in
\* order, or a panic.
depth_first_traversal(net) ==
    LET st0 == [visited |-> {}, calls |-> <<>>, panicked |-> FALSE]
    IN  IF Len(net.junctions) = 0 THEN Ok(<<>>)
        ELSE LET st == depth_first_traversal_helper(net, 1, st0)
             IN  IF st.panicked THEN Panic ELSE Ok(st.calls)

\* The closure `build` of build_spanning_tree: the new node hangs under the
\* top of parent_stack and is pushed on it; nothing is ever popped.
SpanningTreeBuild(st, junc) ==
    IF st.parent_stack = <<>> THEN st
    ELSE LET top == Last(st.parent_stack)
             child == Len(st.nodes) + 1
         IN  [nodes |-> Append([st.nodes EXCEPT ![top].children = Append(@, child)],
                               SpanningNode_new(top, Some(junc))),
              parent_stack |-> Append(st.parent_stack, child)]

RECURSIVE SpanningTreeBuildAll(_, _)
SpanningTreeBuildAll(st, calls) ==
    IF calls = <<>> THEN st
    ELSE SpanningTreeBuildAll(SpanningTreeBuild(st, Head(calls)), Tail(calls))

\* Network::build_spanning_tree: self.junctions[0] panics on no junctions.
build_spanning_tree(net) ==
    IF Len(net.junctions) = 0 THEN Panic
    ELSE LET root == SpanningNode_new(0, Some(1))
             calls == depth_first_traversal(net)
         IN  IF calls.tag = "Panic" THEN Panic
             ELSE Ok([net EXCEPT !.spanning_tree =
                         SpanningTreeBuildAll([nodes |-> <<root>>,
                                               parent_stack |-> <<1>>],
                                              calls.val).nodes])

\* The nodes from the root down to node n: the parents are followed up and
\* the path reversed.
RECURSIVE PathFromRoot(_, _)
PathFromRoot(tree, n) ==
    IF n = 0 THEN <<>> ELSE Append(PathFromRoot(tree, tree[n].parent), n)

\* The closure `build` of build_routes on one path, at position i: the hop to
\* the next junction of the path, and hops to the later ones unless the exit
\* heads 270.  A node without a junction, or an index out of range, panics.
PathHops(net, path, i) ==
    LET tree == net.spanning_tree
        src == tree[path[i]].value
    IN  IF src.tag = "None" THEN Panic
        ELSE IF i + 1 > Len(path) THEN Ok({})
        ELSE LET next == tree[path[i + 1]].value
             IN  IF next.tag = "None" THEN Panic
                 ELSE LET src_junc == net.junctions[src.val]
                          next_hop == net.junctions[next.val]
                          exit_index == find_exit(net, src_junc, next_hop)
                      IN  IF exit_index.tag = "Panic" THEN Panic
                          ELSE IF exit_index.val = usize_MAX THEN Ok({})
                          ELSE LET exit == src_junc.links[exit_index.val + 1]
                                   later == (i + 2) .. Len(path)
                               IN  IF \E j \in later : tree[path[j]].value.tag = "None"
                                   THEN Panic
                                   ELSE Ok({Hop_from(src_junc.id, next_hop.id, exit.exit)}
                                           \cup
                                           {Hop_from(src_junc.id,
                                                     net.junctions[tree[path[j]].value.val].id,
                                                     exit.exit) :
                                               j \in {j \in later :
                                                   /\ src_junc.id # net.junctions[tree[path[j]].value.val].id
                                                   /\ exit.exit # 270}})

\* Network::build_routes: every node of the tree is visited, and each leaf
\* contributes the hops of its path from the root.
build_routes(net) ==
    LET tree == net.spanning_tree
        leaves == {n \in 1 .. Len(tree) : tree[n].children = <<>>}
        steps == {<<n, i>> \in leaves \X (1 .. Len(tree)) :
                     i <= Len(PathFromRoot(tree, n))}
        hops(s) == PathHops(net, PathFromRoot(tree, s[1]), s[2])
    IN  IF \E s \in steps : hops(s).tag = "Panic" THEN Panic
        ELSE Ok([net EXCEPT !.routing = @ \cup UNION {hops(s).val : s \in steps}])

\* Network::from: the five record streams, each already replaced by an empty
\* one if its query failed, are installed and the tree and table built.
Network_from(db) ==
    LET n1 == [Network_empty EXCEPT !.links = db.links, !.junctions = db.junctions]
        n2 == set_junction_connections(n1, db.junctions_links)
    IN  IF n2.tag = "Panic" THEN Panic
        ELSE LET n3 == [n2.val EXCEPT !.tiles = db.tiles, !.segments = db.segments]
                 n4 == build_spanning_tree(n3)
             IN  IF n4.tag = "Panic" THEN Panic ELSE build_routes(n4.val)

\* The two tests of Network::route on a hop: the ids of the hop's junction and
\* destination against the arguments.
HopMatches_DestOnly(junc, dest, junc_id, src_junc, dest_junc, to_dest) ==
    junc = junc_id /\ dest = dest_junc

HopMatches_JunctionOnly(junc, dest, junc_id, src_junc, dest_junc, to_dest) ==
    junc = junc_id

HopMatches(junc, dest, junc_id, src_junc, dest_junc, to_dest) ==
    \/ junc = junc_id /\ dest = dest_junc /\ to_dest
    \/ junc = junc_id /\ dest = src_junc /\ ~to_dest

\* Network::route: the hop the scan of the table returns.  The table is a
\* HashSet and its order unspecified, so any matching hop can come first; a
\* hop naming a junction out of range panics the scan if it is reached.
Network_route(net, junc_id, src_junc, dest_junc, to_dest) ==
    LET src == get_junc(net, src_junc)
        hops == net.routing
        bad == {hop \in hops : get_junc(net, hop.junction).tag = "Panic"
                               \/ get_junc(net, hop.dest_junc).tag = "Panic"}
        matches == {hop \in hops \ bad :
                        HopMatches(net.junctions[hop.junction].id,
                                   net.junctions[hop.dest_junc].id,
                                   junc_id, net.junctions[src.val].id,
                                   dest_junc, to_dest)}
    IN  IF src.tag = "Panic" THEN {Panic}
        ELSE {Some(hop) : hop \in matches}
             \cup (IF bad # {} THEN {Panic} ELSE {})
             \cup (IF bad = {} /\ matches = {} THEN {None} ELSE {})

\* NetworkBuilder
NetworkBuilder_new ==
    [links |-> <<>>, junctions |-> <<>>, next_junc |-> 0, next_link |-> 0]

NetworkBuilder_create_link(b) ==
    LET links == Append(b.links, Link_new(b.next_link))
    IN  [b EXCEPT !.links = links,
                  !.next_link = @ + 1,
                  !.junctions = IF b.junctions = <<>> THEN @
                                ELSE [@ EXCEPT ![Len(b.junctions)].links =
                                         Append(@, Exit(Last(links).id, 90))]]

NetworkBuilder_add_junction(b) ==
    [b EXCEPT !.junctions = Append(@, Junction_new(b.next_junc)),
              !.next_junc = @ + 1]

NetworkBuilder_build(b) == Network_new(b.links, b.junctions)

(****************************************************************************)
(* Network::evaluate_route, one pass through the body of its loop at a time. *)
(* The locals: the route, the position of the current link, trav_dir, the   *)
(* index i of the pattern, turn_num, the hops v, and the number of passes.  *)
(****************************************************************************)

NoEval ==
    [route |-> Route_empty, link |-> 0, trav_dir |-> 0, i |-> 0,
     turn_num |-> 0, v |-> <<>>, passes |-> 0]

\* The junction ahead on the link: link.origin when trav_dir is -1, and
\* link.destination for every other value.
UpcomingJunction(link, trav_dir) ==
    IF trav_dir = -1 THEN link.origin ELSE link.destination

\* The heading on arrival: that of the last segment, or the reciprocal of the
\* first one against the link's direction, and 0 without a segment.
IncomingHeading(net, link, trav_dir) ==
    IF trav_dir = -1
    THEN LET segment == first_segment_for_link(net, link)
         IN  IF segment.tag = "Some" THEN find_reciprocal_heading(segment.val.h)
             ELSE 0
    ELSE LET segment == last_segment_for_link(net, link)
         IN  IF segment.tag = "Some" THEN segment.val.h ELSE 0

\* The match on the turn of the pattern.
ResolveTurn(junc, entry, turn) ==
    CASE turn.kind = "Relative" -> find_exit_from_turn_direction(junc, entry, turn.arg)
      [] turn.kind = "Compass" -> Ok(find_exit_from_compass(junc, turn.arg))
      [] turn.kind = "Exit" -> find_relative_exit(junc, entry, turn.arg)
      [] turn.kind = "Heading" -> Ok(find_exit_from_heading(junc, turn.arg))

\* trav_dir after the link is entered from the junction: the destination
\* test comes last and wins.
TravDirOnto_OriginWins(link, junc_id, trav_dir) ==
    LET t1 == IF link.destination.tag = "Some" /\ link.destination.val = junc_id
              THEN -1 ELSE trav_dir
    IN  IF link.origin.tag = "Some" /\ link.origin.val = junc_id
        THEN 1 ELSE t1

TravDirOnto(link, junc_id, trav_dir) ==
    LET t1 == IF link.origin.tag = "Some" /\ link.origin.val = junc_id
              THEN 1 ELSE trav_dir
    IN  IF link.destination.tag = "Some" /\ link.destination.val = junc_id
        THEN -1 ELSE t1

\* The loop is left when turn_num equals num_turns.  For Always num_turns is
\* u32::MAX, which no turn_num within MaxPasses reaches.
ReachedNumTurns(count, turn_num) == count.kind = "Count" /\ turn_num = count.n

\* A break of the loop: the for loop moves to the next pattern with turn_num
\* at 0 again, and after the last pattern the function returns v.
Break_Return(e) == [at |-> "return", eval |-> e]

Break(e) ==
    IF e.i + 1 >= Len(e.route.patterns)
    THEN [at |-> "return", eval |-> e]
    ELSE [at |-> "loop", eval |-> [e EXCEPT !.i = @ + 1, !.turn_num = 0]]

\* One pass through the body of the loop.
LoopPass(net, e) ==
    LET link == net.links[e.link]
        pattern == e.route.patterns[e.i + 1]
        junc == UpcomingJunction(link, e.trav_dir)
        incoming_heading == IncomingHeading(net, link, e.trav_dir)
    IN  IF junc.tag = "None" THEN [at |-> "loop", eval |-> e]
        ELSE LET upcoming == get_junc(net, junc.val)
             IN  IF upcoming.tag = "Panic" THEN [at |-> "panic", eval |-> e]
                 ELSE LET upcoming_junc == net.junctions[upcoming.val]
                          entry == find_entry(upcoming_junc, incoming_heading)
                          exit_index == ResolveTurn(upcoming_junc, entry, pattern.turn)
                      IN  IF exit_index.tag = "Panic" THEN [at |-> "panic", eval |-> e]
                          ELSE IF exit_index.val = usize_MAX THEN Break(e)
                          ELSE LET exit == upcoming_junc.links[exit_index.val + 1]
                                   next == get_link(net, exit.link_id)
                                   pushed == [e EXCEPT !.v = Append(@, <<upcoming_junc.id, exit_index.val>>)]
                               IN  IF exit_index.val >= Len(upcoming_junc.links)
                                   THEN [at |-> "panic", eval |-> pushed]
                                   ELSE IF next.tag = "Panic" THEN [at |-> "panic", eval |-> pushed]
                                   ELSE LET turned ==
                                                [pushed EXCEPT
                                                    !.link = exit.link_id,
                                                    !.trav_dir = TravDirOnto(next.val, upcoming_junc.id, e.trav_dir),
                                                    !.turn_num = @ + 1]
                                        IN  IF ReachedNumTurns(pattern.count, turned.turn_num)
                                            THEN Break(turned)
                                            ELSE [at |-> "loop", eval |-> turned]

\* Following the routing table: a traveller takes a hop (J, D, E) of the
\* table, leaves J by an exit with heading E, and at every junction short of D
\* asks route(current, _, D, true) for the next exit.
NoWalk == [hop |-> Hop_from(0, 0, 0), current |-> 0, taken |-> 0, status |-> "idle"]

\* No network, no builder, no evaluation and no walk: the state of these
\* variables while only a parser runs.
Idle ==
    /\ network = Network_empty
    /\ builder = NetworkBuilder_new
    /\ eval = NoEval
    /\ walk = NoWalk

(***************************************************************************)
(* The address parsers applied to bounded texts.                           *)
(***************************************************************************)
IdChars == {"1", "-", "."}

Texts(chars, n) == UNION {[1..k -> chars] : k \in 0..n}

MaskSuffixes ==
    { <<>>, <<"/">>, <<"/">> \o DefaultMask, <<"/", "0", ".", "2">> }

InitAddr ==
    /\ pc = "text"
    /\ input \in {t \o m : t \in Texts(IdChars, MaxIdLen), m \in MaskSuffixes}
    /\ output = None
    /\ Idle

ParseIdentifier ==
    /\ pc = "text"
    /\ pc' = "Identifier::parse"
    /\ output' = Identifier_parse(input)
    /\ UNCHANGED <<input, network, builder, eval, walk>>

ParseLogicalAddress ==
    /\ pc = "text"
    /\ pc' = "LogicalAddress::parse"
    /\ output' = LogicalAddress_parse(input)
    /\ UNCHANGED <<input, network, builder, eval, walk>>

NextAddr == ParseIdentifier \/ ParseLogicalAddress

SpecAddr == InitAddr /\ [][NextAddr]_vars

(***************************************************************************)
(* Claims about Identifier::parse and LogicalAddress::parse.               *)
(***************************************************************************)
\* The fields of a dotted text, and a field that is a whole number.
Fields(t) == SplitOn(t, ".")
IsWhole(f) == f # <<>> /\ AllDigits(f) /\ DecimalValue(f) <= U16Max
FieldOr0(fs, k) == IF k <= Len(fs) THEN DecimalValue(fs[k]) ELSE 0

\* The text before the first '/'.
IdPart(t) == SplitOn(t, "/")[1]

ZeroId == [link |-> 0, tile |-> 0, segment |-> 0, lane |-> 0]

\* C9: Identifier::parse of a dotted sequence of fewer than four integers
\* yields the values given, in link, tile, segment order, and 0 for every
\* missing trailing field; the empty text yields the all-zero Identifier.
C9_FewerThanFourFields ==
    pc = "Identifier::parse" =>
        /\ (input = <<>> => output = Ok(ZeroId))
        /\ LET fs == Fields(input)
           IN  (Len(fs) < 4 /\ \A k \in 1..Len(fs) : IsWhole(fs[k])) =>
                   output = Ok([link |-> FieldOr0(fs, 1), tile |-> FieldOr0(fs, 2),
                                segment |-> FieldOr0(fs, 3), lane |-> 0])

\* One of the first three fields of a dotted text begins with '-'.
MinusInFirstThree(t) ==
    LET fs == Fields(t)
    IN  \E k \in 1..Len(fs) : k <= 3 /\ fs[k] # <<>> /\ fs[k][1] = "-"

\* Three whole numbers, then a fourth field '-' followed by a whole number.
NegativeLaneText(t) ==
    LET fs == Fields(t)
    IN  /\ Len(fs) = 4
        /\ \A k \in 1..3 : IsWhole(fs[k])
        /\ fs[4] # <<>> /\ fs[4][1] = "-" /\ IsWhole(Tail(fs[4]))
        /\ DecimalValue(Tail(fs[4])) <= 0 - I16Min

NegativeLaneId(t) ==
    LET fs == Fields(t)
    IN  [link |-> DecimalValue(fs[1]), tile |-> DecimalValue(fs[2]),
         segment |-> DecimalValue(fs[3]), lane |-> 0 - DecimalValue(Tail(fs[4]))]

\* C10: Identifier::parse, and LogicalAddress::parse through it, returns the
\* minus-sign error whenever one of the first three fields begins with '-',
\* and accepts a leading '-' on the fourth field, which gives the lane its sign.
C10_MinusSign ==
    /\ pc = "Identifier::parse" =>
          /\ MinusInFirstThree(input) => output = Err(ErrMinus)
          /\ NegativeLaneText(input) => output = Ok(NegativeLaneId(input))
    /\ pc = "LogicalAddress::parse" =>
          /\ (IdPart(input) # <<>> /\ MinusInFirstThree(IdPart(input))) =>
                 output = Err(ErrMinus)
          /\ NegativeLaneText(IdPart(input)) =>
                 (output.tag = "Ok" /\ output.val.id = NegativeLaneId(IdPart(input)))

\* A text with a negative lane, parsed as a logical address with its mask.
C10_Witness ==
    /\ pc = "LogicalAddress::parse"
    /\ NegativeLaneText(IdPart(input))
    /\ Len(input) > Len(IdPart(input)) + 1
    /\ output.tag = "Ok" /\ output.val.id.lane < 0

\* The text of the all-true mask, and a text without a '/'.
AllTrueMaskText == <<"/", "1", ".", "1", ".", "1", ".", "1">>
NoSlash(t) == \A k \in 1..Len(t) : t[k] # "/"
AllTrue == [link |-> TRUE, tile |-> TRUE, segment |-> TRUE, lane |-> TRUE]

\* C12: mask default: for every id text X, LogicalAddress::parse(X) and
\* LogicalAddress::parse(X + "/1.1.1.1") return the same result: the same
\* address with an all-true mask, or the same error.
C12_MaskDefault ==
    (pc = "LogicalAddress::parse" /\ NoSlash(input)) =>
        /\ output = LogicalAddress_parse(input \o AllTrueMaskText)
        /\ output.tag = "Ok" => output.val.mask = AllTrue

\* A text without a mask parsed to an address with a non-zero link.
C12_Witness ==
    /\ pc = "LogicalAddress::parse"
    /\ NoSlash(input)
    /\ output.tag = "Ok" /\ output.val.id.link > 0

\* The text before the first '/' is empty, and the message that reports it.
EmptyBeforeSlash(t) == t = <<>> \/ t[1] = "/"
EmptyIdMessage == "Expected some content before the '/'"

\* C13: LogicalAddress::parse returns Err("Expected some content before the
\* '/'") exactly when the text before the first '/' is empty (as in "", "/"
\* and "/x"); the identifier and the mask are then not looked at.
C13_EmptyIdError ==
    pc = "LogicalAddress::parse" =>
        (output = Err(EmptyIdMessage) <=> EmptyBeforeSlash(input))

\* The error came back for a text that has a mask but nothing before the '/'.
C13_Witness ==
    /\ pc = "LogicalAddress::parse"
    /\ Len(input) > 1 /\ input[1] = "/"
    /\ output = Err(EmptyIdMessage)

\* C14: Identifier::parse and LogicalAddress::parse return Ok or Err for
\* every text and never panic, a fourth field outside the i16 range or a lone
\* minus sign as fourth field included.
C14_ParsersNeverPanic ==
    pc \in {"Identifier::parse", "LogicalAddress::parse"} =>
        output.tag \in {"Ok", "Err"}

(***************************************************************************)
(* Identifier::parse applied to the text "a.b.c.d" of bounded values: the  *)
(* ends of the u16 and i16 ranges and values of one and two digits.        *)
(***************************************************************************)
DigitChars == <<"0", "1", "2", "3", "4", "5", "6", "7", "8", "9">>

\* The decimal text of a natural number, and of an integer with its sign.
RECURSIVE NaturalText(_)
NaturalText(n) ==
    IF n < 10 THEN <<DigitChars[n + 1]>>
    ELSE Append(NaturalText(n \div 10), DigitChars[(n % 10) + 1])

IntegerText(n) == IF n < 0 THEN <<"-">> \o NaturalText(0 - n) ELSE NaturalText(n)

IdentifierText(id) ==
    NaturalText(id.link) \o <<".">> \o NaturalText(id.tile) \o <<".">>
        \o NaturalText(id.segment) \o <<".">> \o IntegerText(id.lane)

FieldValues == {0, 7, 10, U16Max}
LaneValues == {I16Min, -1, 0, 12, I16Max}

InitId ==
    /\ pc = "value"
    /\ input \in [link : FieldValues, tile : FieldValues,
                  segment : FieldValues, lane : LaneValues]
    /\ output = None
    /\ Idle

\* Identifier::parse of the text of the value.
ParseIdentifierText ==
    /\ pc = "value"
    /\ pc' = "Identifier::parse of text"
    /\ output' = Identifier_parse(IdentifierText(input))
    /\ UNCHANGED <<input, network, builder, eval, walk>>

NextId == ParseIdentifierText

SpecId == InitId /\ [][NextId]_vars

\* C11: identifier round trip: for every (a, b, c, d) with a, b, c in
\* [0, 65535] and d in [-32768, 32767], Identifier::parse of the text
\* "a.b.c.d" returns Ok of the identifier with link a, tile b, segment c and
\* lane d.
C11_RoundTrip ==
    pc = "Identifier::parse of text" => output = Ok(input)

\* The largest link and a negative lane came back from their text.
C11_Witness ==
    /\ pc = "Identifier::parse of text"
    /\ input.link = U16Max /\ input.lane < 0
    /\ output = Ok(input)

(***************************************************************************)
(* The exit resolvers of a junction applied to bounded junctions: every    *)
(* list of up to MaxExits exits over headings with repeats, both           *)
(* hemispheres and a heading beyond a full turn.                           *)
(***************************************************************************)
MaxExits == 3
MaxRelative == 4

ExitHeadings == {0, 45, 90, 180, 270, 450}
ArgHeadings == {0, 45, 90, 135, 180, 270, 300, 400}
TurnDirections == {"Straight", "Left", "Right", "UTurn"}
CompassDirections == {"North", "NorthEast", "East", "SouthEast", "South",
                      "SouthWest", "West", "NorthWest"}

Junctions ==
    UNION {{[id |-> 1, links |-> [i \in 1..k |-> Exit(i, hs[i])]] :
                hs \in [1..k -> ExitHeadings]} : k \in 0..MaxExits}

InitJunction ==
    /\ pc = "junction"
    /\ input \in {[junc |-> j] : j \in Junctions}
    /\ output = None
    /\ Idle

FindEntry ==
    /\ pc = "junction"
    /\ \E heading \in ArgHeadings :
        /\ input' = [junc |-> input.junc, heading |-> heading]
        /\ output' = find_entry(input.junc, heading)
    /\ pc' = "Junction::find_entry"
    /\ UNCHANGED <<network, builder, eval, walk>>

FindExitFromHeading ==
    /\ pc = "junction"
    /\ \E heading \in ArgHeadings :
        /\ input' = [junc |-> input.junc, heading |-> heading]
        /\ output' = find_exit_from_heading(input.junc, heading)
    /\ pc' = "Junction::find_exit_from_heading"
    /\ UNCHANGED <<network, builder, eval, walk>>

FindRelativeExit ==
    /\ pc = "junction"
    /\ \E entry_index \in 0..(MaxExits - 1), relative_exit \in 0..MaxRelative :
        /\ input' = [junc |-> input.junc, entry_index |-> entry_index,
                     relative_exit |-> relative_exit]
        /\ output' = find_relative_exit(input.junc, entry_index, relative_exit)
    /\ pc' = "Junction::find_relative_exit"
    /\ UNCHANGED <<network, builder, eval, walk>>

FindExitFromTurnDirection ==
    /\ pc = "junction"
    /\ \E entry_index \in 0..(MaxExits - 1), turn_dir \in TurnDirections :
        /\ input' = [junc |-> input.junc, entry_index |-> entry_index,
                     turn_dir |-> turn_dir]
        /\ output' = find_exit_from_turn_direction(input.junc, entry_index, turn_dir)
    /\ pc' = "Junction::find_exit_from_turn_direction"
    /\ UNCHANGED <<network, builder, eval, walk>>

FindExitFromCompass ==
    /\ pc = "junction"
    /\ \E dir \in CompassDirections :
        /\ input' = [junc |-> input.junc, dir |-> dir]
        /\ output' = find_exit_from_compass(input.junc, dir)
    /\ pc' = "Junction::find_exit_from_compass"
    /\ UNCHANGED <<network, builder, eval, walk>>

NextJunction ==
    \/ FindEntry
    \/ FindExitFromHeading
    \/ FindRelativeExit
    \/ FindExitFromTurnDirection
    \/ FindExitFromCompass

SpecJunction == InitJunction /\ [][NextJunction]_vars

\* The number of exits of the junction, the heading of exit i (from 0) and
\* its distance from a heading.
NumExits == Len(input.junc.links)

ExitHeading(i) == input.junc.links[i + 1].exit

Delta(i, h) == Abs(ExitHeading(i) - h)

\* Index i is nearest to h among the indices of S, and the lowest such.
NearestLowest(i, S, h) ==
    /\ i \in S
    /\ \A j \in S : Delta(i, h) <= Delta(j, h)
    /\ \A j \in S : j < i => Delta(j, h) > Delta(i, h)

\* The reciprocal of a heading of zero or more degrees.
Reciprocal(h) == (h + 180) % 360

\* C15: for a junction with at least one exit, find_entry(arrival_heading)
\* returns the index i that minimises |exit_heading[i] -
\* reciprocal(arrival_heading)| over all exits, and the lowest such index
\* when several exits tie.
C15_FindEntryNearest ==
    (pc = "Junction::find_entry" /\ NumExits >= 1) =>
        NearestLowest(output, 0 .. (NumExits - 1), Reciprocal(input.heading))

\* An exit farther away comes first and the two nearest exits tie: the lower
\* of the two is returned.
C15_Witness ==
    /\ pc = "Junction::find_entry"
    /\ NumExits = 3
    /\ output = 1
    /\ Delta(2, Reciprocal(input.heading)) = Delta(1, Reciprocal(input.heading))
    /\ Delta(0, Reciprocal(input.heading)) > Delta(1, Reciprocal(input.heading))

\* The half-plane of a heading of zero or more degrees: 0 for the half around
\* 0 degrees, 1 for the half around 180 degrees.
HalfPlane(h) ==
    IF \E n \in 0..3 : \/ (360 * n <= h /\ h < 360 * n + 90)
                       \/ (360 * n + 270 <= h /\ h < 360 * n + 360)
    THEN 0 ELSE 1

SameHemisphereExits(h) ==
    {i \in 0 .. (NumExits - 1) : HalfPlane(ExitHeading(i)) = HalfPlane(h)}

\* C16: find_exit_from_heading(h) returns usize::MAX if and only if the
\* junction has no exit whose heading lies in the same hemisphere as h;
\* otherwise it returns the index of an exit in the same hemisphere as h
\* whose heading most closely matches h among the same-hemisphere exits
\* (lowest index on ties), never an exit of the other hemisphere.
C16_ExitFromHeading ==
    pc = "Junction::find_exit_from_heading" =>
        /\ output = usize_MAX <=> SameHemisphereExits(input.heading) = {}
        /\ SameHemisphereExits(input.heading) # {} =>
              NearestLowest(output, SameHemisphereExits(input.heading),
                            input.heading)

\* An exit of the other hemisphere is strictly nearer than the exit returned.
C16_Witness ==
    /\ pc = "Junction::find_exit_from_heading"
    /\ output # usize_MAX
    /\ \E j \in 0 .. (NumExits - 1) :
          /\ HalfPlane(ExitHeading(j)) # HalfPlane(input.heading)
          /\ Delta(j, input.heading) < Delta(output, input.heading)

\* C17: for a junction with k >= 1 exits, find_relative_exit(entry, n) equals
\* (entry - n) mod k folded into [0, k): the result is always a valid exit
\* index, n = 0 returns entry itself, and n = 1 returns the previous index
\* cyclically (entry being the index of an exit).
C17_RelativeExit ==
    (pc = "Junction::find_relative_exit" /\ NumExits >= 1) =>
        /\ output.tag = "Ok"
        /\ output.val \in 0 .. (NumExits - 1)
        /\ \E q \in (0 - MaxRelative - 1) .. MaxExits :
              output.val = (input.entry_index - input.relative_exit) - q * NumExits
        /\ input.entry_index < NumExits =>
              /\ input.relative_exit = 0 => output.val = input.entry_index
              /\ input.relative_exit = 1 =>
                    output.val = IF input.entry_index = 0 THEN NumExits - 1
                                 ELSE input.entry_index - 1

\* Going back past exit 0 more than once round.
C17_Witness ==
    /\ pc = "Junction::find_relative_exit"
    /\ NumExits = 3
    /\ input.entry_index = 0
    /\ input.relative_exit = 4
    /\ output = Ok(2)

\* The heading asked for by a turn at the entry exit, within [0, 360).
DesiredHeading(entry_index, turn_dir) ==
    LET r == Reciprocal(ExitHeading(entry_index))
        d == IF turn_dir = "Straight" THEN r
             ELSE IF turn_dir = "Left" THEN r + 90
             ELSE IF turn_dir = "Right" THEN r - 90
             ELSE r + 180
    IN  IF d < 0 THEN d + 360 ELSE IF d >= 360 THEN d - 360 ELSE d

DistinctWithinTurn ==
    /\ \A i \in 0 .. (NumExits - 1) : ExitHeading(i) < 360
    /\ \A i, j \in 0 .. (NumExits - 1) :
          ExitHeading(i) = ExitHeading(j) => i = j

\* C18: find_exit_from_turn_direction(entry, turn) equals
\* find_exit_from_heading(d), where d is reciprocal(heading of exit[entry])
\* plus 0 for Straight, +90 for Left, -90 for Right and +180 for UTurn,
\* normalised into [0, 360); so on a junction whose exit headings are
\* distinct and within [0, 360), UTurn returns entry itself.
C18_TurnDirection ==
    (pc = "Junction::find_exit_from_turn_direction"
        /\ input.entry_index < NumExits) =>
        /\ output = Ok(find_exit_from_heading(input.junc,
                        DesiredHeading(input.entry_index, input.turn_dir)))
        /\ (input.turn_dir = "UTurn" /\ DistinctWithinTurn) =>
              output = Ok(input.entry_index)

\* A U-turn at the last of three distinct exits.
C18_Witness ==
    /\ pc = "Junction::find_exit_from_turn_direction"
    /\ NumExits = 3
    /\ DistinctWithinTurn
    /\ input.turn_dir = "UTurn"
    /\ input.entry_index = 2
    /\ output = Ok(2)

\* Headings counted anticlockwise from North.
CompassMapping ==
    [North |-> 0, NorthWest |-> 45, West |-> 90, SouthWest |-> 135,
     South |-> 180, SouthEast |-> 225, East |-> 270, NorthEast |-> 315]

\* C19: find_exit_from_compass(dir) equals find_exit_from_heading(m(dir))
\* with the fixed mapping North=0, NorthWest=45, West=90, SouthWest=135,
\* South=180, SouthEast=225, East=270, NorthEast=315.
C19_Compass ==
    pc = "Junction::find_exit_from_compass" =>
        output = find_exit_from_heading(input.junc, CompassMapping[input.dir])

\* East on a junction with exits at 90 and at 270 takes the one at 270.
C19_Witness ==
    /\ pc = "Junction::find_exit_from_compass"
    /\ input.dir = "East"
    /\ output = 1
    /\ NumExits = 2
    /\ ExitHeading(0) = 90
    /\ ExitHeading(1) = 270

(***************************************************************************)
(* Route::parse applied to bounded texts: a prefix of the four leading     *)
(* fields, then up to MaxPairs pattern pairs and a single trailing token,  *)
(* separated by one or two spaces.                                         *)
(***************************************************************************)
StartLinkTokens == { <<"1">>, <<"x">> }
OffsetTokens == { <<"-", "1", ".", "5">> }
DistanceTokens == { <<"0", ".", "5">> }
TravDirTokens == { <<"1">>, <<"-", "1">> }
TurnTokens ==
    { <<"R", "e", "l", "a", "t", "i", "v", "e", ":", "L", "e", "f", "t">>,
      <<"C", "o", "m", "p", "a", "s", "s", ":", "N", "o", "r", "t", "h">>,
      <<"E", "x", "i", "t", ":", "2">>, <<"H", "e", "a", "d", "i", "n", "g", ":", "9", "0">>,
      <<"F", "o", "o", ":", "B", "a", "r">>,
      <<"R", "e", "l", "a", "t", "i", "v", "e", ":", "S", "i", "d", "e", "w", "a", "y", "s">>,
      <<"E", "x", "i", "t", ":", "9", "9", "9">> }
MultiplicityTokens ==
    { <<"C", "o", "u", "n", "t", ":", "1">>, <<"A", "l", "w", "a", "y", "s">>,
      <<"C", "o", "u", "n", "t", ":", "x">> }
TrailingTokens == { <<"X">>, <<"E", "x", "i", "t", ":", "2">> }

\* The token lists: a prefix of the leading fields, or all four and a tail.
LeadingFields(n) ==
    {SubSeq(<<a, b, c, d>>, 1, n) : a \in StartLinkTokens, b \in OffsetTokens,
                                   c \in DistanceTokens, d \in TravDirTokens}

RECURSIVE PairLists(_)
PairLists(n) ==
    IF n = 0 THEN {<<>>}
    ELSE PairLists(n - 1) \cup
         {ps \o <<t, m>> : ps \in {q \in PairLists(n - 1) : Len(q) = 2 * (n - 1)},
                           t \in TurnTokens, m \in MultiplicityTokens}

PatternTails ==
    PairLists(MaxPairs) \cup
    {ps \o <<t>> : ps \in PairLists(MaxPairs), t \in TrailingTokens}

TokenLists ==
    UNION {LeadingFields(n) : n \in 0..3} \cup
    {f \o tl : f \in LeadingFields(4), tl \in PatternTails}

RECURSIVE Glue(_, _)
Glue(tokens, sep) ==
    IF tokens = <<>> THEN <<>>
    ELSE IF Len(tokens) = 1 THEN tokens[1]
    ELSE tokens[1] \o sep \o Glue(Tail(tokens), sep)

\* Single spaces, or a leading space and double spaces between the tokens.
Spacings == { <<<<>>, <<" ">>>>, <<<<" ">>, <<" ", " ">>>> }
Margins == { <<>>, <<" ">> }

RouteTexts ==
    {sp[1] \o Glue(ts, sp[2]) \o trail :
        sp \in Spacings, ts \in TokenLists, trail \in Margins}

InitRoute ==
    /\ pc = "text"
    /\ input \in RouteTexts
    /\ output = None
    /\ Idle

ParseRoute ==
    /\ pc = "text"
    /\ pc' = "Route::parse"
    /\ output' = Route_parse(input)
    /\ UNCHANGED <<input, network, builder, eval, walk>>

NextRoute == ParseRoute

SpecRoute == InitRoute /\ [][NextRoute]_vars

(***************************************************************************)
(* Claims about Route::parse.                                              *)
(***************************************************************************)
\* The tokens of a text, and the pattern a pair of tokens denotes (if any).
Tokens(t) == SplitWhitespace(t)

PairDenotes(t, m) ==
    Turn_from_str(t).tag = "Ok" /\ TurnMultiplicity_from_str(m).tag = "Ok"

PatternOf(t, m) ==
    [turn |-> Turn_from_str(t).val, count |-> TurnMultiplicity_from_str(m).val]

\* The recognised pairs among the tokens after the fourth, in input order.
RECURSIVE RecognisedPairs(_)
RecognisedPairs(ts) ==
    IF Len(ts) < 2 THEN <<>>
    ELSE (IF PairDenotes(ts[1], ts[2]) THEN <<PatternOf(ts[1], ts[2])>> ELSE <<>>)
         \o RecognisedPairs(SubSeq(ts, 3, Len(ts)))

RECURSIVE AllPairsDenote(_)
AllPairsDenote(ts) ==
    IF ts = <<>> THEN TRUE
    ELSE Len(ts) >= 2 /\ PairDenotes(ts[1], ts[2])
         /\ AllPairsDenote(SubSeq(ts, 3, Len(ts)))

\* C2: Route::parse returns a Route for every text and never fails: a pair
\* whose turn or multiplicity is unrecognised is dropped, the other pairs are
\* parsed in order, and a trailing single token is ignored.
C2_ParseNeverFails ==
    pc = "Route::parse" =>
        /\ output.tag = "Return"
        /\ output.val.patterns =
               RecognisedPairs(SubSeq(Tokens(input), 5, Len(Tokens(input))))

\* C6: for four well-formed numeric tokens, optionally followed by pattern
\* pairs, the four fields are the four tokens, whether or not anything follows
\* the fourth, and the patterns are the pairs in input order.
C6_LeadingFields ==
    LET ts == Tokens(input)
        tl == SubSeq(ts, 5, Len(ts))
    IN  (/\ pc = "Route::parse"
         /\ Len(ts) >= 4
         /\ ParseU16(ts[1]).tag = "Some" /\ ParseF64(ts[2]).tag = "Some"
         /\ ParseF64(ts[3]).tag = "Some" /\ ParseI32(ts[4]).tag = "Some"
         /\ AllPairsDenote(tl)) =>
            output = Returned([start_link |-> ParseU16(ts[1]).val,
                               offset |-> ParseF64(ts[2]).val,
                               distance |-> ParseF64(ts[3]).val,
                               trav_dir |-> ParseI32(ts[4]).val,
                               patterns |-> RecognisedPairs(tl)])

(****************************************************************************)
(* The specification of the network: it is loaded from the stored records or *)
(* put together with the NetworkBuilder, and then a route is evaluated on it *)
(* or the routing table is followed from one of its hops.                   *)
(****************************************************************************)

\* Databases: junctions 1..n, and roads, each a link with its compass heading
\* from origin to destination.  A road gives an exit with that heading at its
\* origin and one with the reciprocal heading at its destination, and one tile
\* with one segment.  The junctions_links rows come ORDER BY junc_id, exit.
RoadHeadings == {0, 270}

RecordKinds == {"links", "junctions", "junctions_links", "tiles", "segments"}

\* Which queries fail: one of them, or all.
Failures == {{k} : k \in RecordKinds} \cup {RecordKinds}

Roads(n) ==
    UNION {[1 .. m -> [origin : 1 .. n, destination : 1 .. n, h : RoadHeadings]] :
              m \in 0 .. MaxLinks}

RowBefore(a, b) == a[1] < b[1] \/ (a[1] = b[1] /\ a[3] < b[3])

InsertRow(sorted, r) ==
    LET k == Cardinality({i \in 1 .. Len(sorted) : ~RowBefore(r, sorted[i])})
    IN  SubSeq(sorted, 1, k) \o <<r>> \o SubSeq(sorted, k + 1, Len(sorted))

\* The rows as they come from the query.
OrderRows_AsInserted(rows) == rows

RECURSIVE OrderRows(_)
OrderRows(rows) ==
    IF rows = <<>> THEN <<>>
    ELSE InsertRow(OrderRows(SubSeq(rows, 1, Len(rows) - 1)), Last(rows))

RECURSIVE ExitRows(_, _)
ExitRows(roads, k) ==
    IF k > Len(roads) THEN <<>>
    ELSE << <<roads[k].origin, k, roads[k].h>>,
            <<roads[k].destination, k, Junction_reciprocal(roads[k].h)>> >>
         \o ExitRows(roads, k + 1)

Database(n, roads, failed) ==
    [links |-> IF "links" \in failed THEN <<>>
               ELSE [k \in 1 .. Len(roads) |->
                        Link_from_query(k, roads[k].origin, roads[k].destination)],
     junctions |-> IF "junctions" \in failed THEN <<>>
                   ELSE [k \in 1 .. n |-> Junction_from_query(k)],
     junctions_links |-> IF "junctions_links" \in failed THEN <<>>
                         ELSE OrderRows(ExitRows(roads, 1)),
     tiles |-> IF "tiles" \in failed THEN <<>>
               ELSE [k \in 1 .. Len(roads) |-> Tile_from_query(k, k)],
     segments |-> IF "segments" \in failed THEN <<>>
                  ELSE [k \in 1 .. Len(roads) |-> Segment_from_query(k, roads[k].h)]]

\* Every database of up to MaxJunctions junctions and MaxLinks roads, and
\* those of at most one road with failing queries.
Databases ==
    UNION {{Database(n, roads, {}) : roads \in Roads(n)}
           \cup {Database(n, roads, failed) :
                    roads \in {r \in Roads(n) : Len(r) <= 1}, failed \in Failures} :
              n \in 0 .. MaxJunctions}

\* Route queries: what Route::parse returns for the texts of a start link, an
\* offset, a distance, a direction and up to MaxPatterns patterns.
QueryStartLinks == { <<"x">>, <<"1">> }
QueryTravDirs == { <<"1">>, <<"-", "1">> }
QueryPatterns ==
    { <<"R", "e", "l", "a", "t", "i", "v", "e", ":", "S", "t", "r", "a", "i", "g", "h", "t", " ", "A", "l", "w", "a", "y", "s">>, <<"R", "e", "l", "a", "t", "i", "v", "e", ":", "S", "t", "r", "a", "i", "g", "h", "t", " ", "C", "o", "u", "n", "t", ":", "0">>,
      <<"C", "o", "m", "p", "a", "s", "s", ":", "N", "o", "r", "t", "h", " ", "C", "o", "u", "n", "t", ":", "1">>, <<"E", "x", "i", "t", ":", "1", " ", "C", "o", "u", "n", "t", ":", "0">>, <<"E", "x", "i", "t", ":", "1", " ", "C", "o", "u", "n", "t", ":", "2">>,
      <<"H", "e", "a", "d", "i", "n", "g", ":", "9", "0", " ", "A", "l", "w", "a", "y", "s">> }

QueryTexts ==
    {Glue(<<s, <<"0">>, <<"0">>, d>> \o ps, <<" ">>) :
        s \in QueryStartLinks, d \in QueryTravDirs,
        ps \in UNION {[1 .. n -> QueryPatterns] : n \in 0 .. MaxPatterns}}

Routes == {Route_parse(t).val : t \in QueryTexts}

\* The junctions at the far end of the exits of junction junc_id that have the
\* heading: the link is entered as evaluate_route enters it.
FarEnds(net, junc_id, heading) ==
    LET junc == get_junc(net, junc_id)
        exits == IF junc.tag = "Panic" THEN {}
                 ELSE {k \in 1 .. Len(net.junctions[junc.val].links) :
                          /\ net.junctions[junc.val].links[k].exit = heading
                          /\ get_link(net, net.junctions[junc.val].links[k].link_id).tag = "Ok"}
        ahead(k) == LET link == get_link(net, net.junctions[junc.val].links[k].link_id).val
                    IN  UpcomingJunction(link, TravDirOnto(link, junc_id, 1))
    IN  {ahead(k).val : k \in {k \in exits : ahead(k).tag = "Some"}}

\* The walk after the exit with the heading is taken at walk.current.
Leave(net, w, heading) ==
    LET ends == FarEnds(net, w.current, heading)
    IN  IF ends = {} THEN {[w EXCEPT !.status = "lost"]}
        ELSE {[w EXCEPT !.current = j, !.taken = @ + 1,
                        !.status = IF j = w.hop.dest_junc THEN "arrived"
                                   ELSE "walking"] : j \in ends}

Init ==
    /\ pc = "start"
    /\ input = <<>>
    /\ output = None
    /\ network = Network_empty
    /\ builder = NetworkBuilder_new
    /\ eval = NoEval
    /\ walk = NoWalk

\* let network = Network::from(&connection)
NetworkFrom ==
    /\ pc = "start"
    /\ \E db \in Databases :
          LET loaded == Network_from(db)
          IN  /\ input' = db
              /\ IF loaded.tag = "Panic"
                 THEN pc' = "Network::from" /\ output' = Panic /\ UNCHANGED network
                 ELSE pc' = "ready" /\ output' = None /\ network' = loaded.val
    /\ UNCHANGED <<builder, eval, walk>>

\* let mut builder = NetworkBuilder::new()
BuilderNew ==
    /\ pc = "start"
    /\ pc' = "builder"
    /\ builder' = NetworkBuilder_new
    /\ UNCHANGED <<input, output, network, eval, walk>>

\* builder.add_junction()
BuilderAddJunction ==
    /\ pc = "builder"
    /\ builder.next_junc < MaxJunctions
    /\ builder' = NetworkBuilder_add_junction(builder)
    /\ UNCHANGED <<pc, input, output, network, eval, walk>>

\* builder.create_link()
BuilderCreateLink ==
    /\ pc = "builder"
    /\ builder.next_link < MaxLinks
    /\ builder' = NetworkBuilder_create_link(builder)
    /\ UNCHANGED <<pc, input, output, network, eval, walk>>

\* let network = builder.build()
BuilderBuild ==
    /\ pc = "builder"
    /\ pc' = "ready"
    /\ network' = NetworkBuilder_build(builder)
    /\ UNCHANGED <<input, output, builder, eval, walk>>

\* network.evaluate_route(&route), up to the first pass of the loop.
EvaluateRoute ==
    /\ pc = "ready"
    /\ \E route \in Routes :
          LET link == get_link(network, route.start_link)
              e == [NoEval EXCEPT !.route = route, !.link = route.start_link,
                                  !.trav_dir = route.trav_dir]
          IN  /\ eval' = e
              /\ IF link.tag = "Panic"
                 THEN pc' = "Network::evaluate_route" /\ output' = Panic
                 ELSE IF route.patterns = <<>>
                 THEN pc' = "Network::evaluate_route" /\ output' = Ok(e.v)
                 ELSE pc' = "loop" /\ output' = None
    /\ UNCHANGED <<input, network, builder, walk>>

\* One pass through the loop of evaluate_route.
EvaluateLoop ==
    /\ pc = "loop"
    /\ eval.passes < MaxPasses
    /\ LET pass == LoopPass(network, eval)
           e == [pass.eval EXCEPT !.passes = @ + 1]
       IN  /\ eval' = e
           /\ CASE pass.at = "loop" -> pc' = "loop" /\ output' = None
                [] pass.at = "return" ->
                      pc' = "Network::evaluate_route" /\ output' = Ok(e.v)
                [] pass.at = "panic" ->
                      pc' = "Network::evaluate_route" /\ output' = Panic
    /\ UNCHANGED <<input, network, builder, walk>>

\* A hop of the table is taken up and its junction left by its exit.
WalkLeave ==
    /\ pc = "ready"
    /\ pc' = "walk"
    /\ \E hop \in network.routing :
          walk' \in Leave(network, [NoWalk EXCEPT !.hop = hop, !.current = hop.junction],
                          hop.exit)
    /\ UNCHANGED <<input, output, network, builder, eval>>

\* network.route(current, current, D, true), and the exit it names is taken.
WalkRoute ==
    /\ pc = "walk"
    /\ walk.status = "walking"
    /\ walk.taken < MaxHops
    /\ \E next \in Network_route(network, walk.current, walk.current,
                                 walk.hop.dest_junc, TRUE) :
          /\ output' = next
          /\ IF next.tag = "Some"
             THEN walk' \in Leave(network, walk, next.val.exit)
             ELSE walk' = [walk EXCEPT !.status = "lost"]
    /\ UNCHANGED <<pc, input, network, builder, eval>>

Next ==
    \/ NetworkFrom
    \/ BuilderNew
    \/ BuilderAddJunction
    \/ BuilderCreateLink
    \/ BuilderBuild
    \/ EvaluateRoute
    \/ EvaluateLoop
    \/ WalkLeave
    \/ WalkRoute

Spec == Init /\ [][Next]_vars

(****************************************************************************)
(* Claims about network construction, the routing table and evaluate_route. *)
(****************************************************************************)

\* The network came from Network::from: `input` holds the records it read.
Loaded == input # <<>>

\* The invariants of the data model: link and junction ids are their 1-based
\* positions, every exit names an existing link, every endpoint an existing
\* junction, exit headings lie in [0, 360) and ascend within a junction.
DataModelInvariants(net) ==
    /\ \A k \in 1 .. Len(net.links) :
          /\ net.links[k].id = k
          /\ net.links[k].origin.tag = "Some" =>
                net.links[k].origin.val \in 1 .. Len(net.junctions)
          /\ net.links[k].destination.tag = "Some" =>
                net.links[k].destination.val \in 1 .. Len(net.junctions)
    /\ \A j \in 1 .. Len(net.junctions) :
          /\ net.junctions[j].id = j
          /\ \A k \in 1 .. Len(net.junctions[j].links) :
                /\ net.junctions[j].links[k].link_id \in 1 .. Len(net.links)
                /\ net.junctions[j].links[k].exit \in 0 .. 359
                /\ k > 1 => net.junctions[j].links[k - 1].exit
                                <= net.junctions[j].links[k].exit

\* evaluate_route is in its loop and the current link has no junction ahead.
UpcomingAbsent ==
    /\ pc = "loop"
    /\ UpcomingJunction(network.links[eval.link], eval.trav_dir).tag = "None"

\* C1: whenever, during evaluate_route, the current link has no upcoming
\* junction, the whole evaluation terminates and returns the hops emitted so
\* far: the pass of the loop that finds the junction absent is the return.
C1_AbsentJunctionTerminates ==
    [][UpcomingAbsent =>
          (pc' = "Network::evaluate_route" /\ output' = Ok(eval.v))]_vars

\* The walk of the routing table has come to a junction short of its
\* destination where the table has no hop to it, or names an exit that the
\* junction does not have.
WalkLost == walk.status = "lost"

\* No two exits of a junction share a heading, so the exit a heading names is
\* one exit.
DistinctHeadings(net) ==
    \A j \in 1 .. Len(net.junctions) :
        \A k, m \in 1 .. Len(net.junctions[j].links) :
            k # m => net.junctions[j].links[k].exit # net.junctions[j].links[m].exit

\* C3: for every hop (J, D, E) of the routing table of a network satisfying
\* the data-model invariants, J has an exit with heading E, and leaving J by
\* it and then following route(current, _, D, true) arrives at D: the walk is
\* never left without a next exit short of D.
C3_HopsLeadToDestination ==
    (Loaded /\ DataModelInvariants(network) /\ DistinctHeadings(network))
        => ~WalkLost

\* The other endpoint of a link seen from a junction: the destination if the
\* junction is the origin, the origin otherwise.
OtherEndpoint(link, j) ==
    IF link.origin = Some(j) THEN link.destination ELSE link.origin

\* The junctions one link away from junction j through its exits; a link
\* missing an endpoint is skipped.
Neighbours(net, j) ==
    {OtherEndpoint(net.links[net.junctions[j].links[k].link_id], j).val :
        k \in {k \in 1 .. Len(net.junctions[j].links) :
                 LET link == net.links[net.junctions[j].links[k].link_id]
                 IN  link.origin.tag = "Some" /\ link.destination.tag = "Some"}}

RECURSIVE ConnectedFrom(_, _)
ConnectedFrom(net, seen) ==
    LET more == seen \cup UNION {Neighbours(net, j) : j \in seen}
    IN  IF more = seen THEN seen ELSE ConnectedFrom(net, more)

\* The junctions that have a node in the spanning tree.
TreeJunctions(net) ==
    {net.junctions[net.spanning_tree[n].value.val].id :
        n \in {n \in 1 .. Len(net.spanning_tree) :
                 net.spanning_tree[n].value.tag = "Some"}}

\* C4: after construction the spanning tree has a node for every junction
\* connected to junction 1 through a chain of links, each taken from either
\* end to its other endpoint.
C4_TreeSpansConnected ==
    (Loaded /\ pc = "ready" /\ DataModelInvariants(network)) =>
        ConnectedFrom(network, {1}) \subseteq TreeJunctions(network)

\* Some record kind of the database read by Network::from is empty.
SomeKindEmpty ==
    /\ Loaded
    /\ \E k \in RecordKinds : input[k] = <<>>

\* C5: network construction as performed by Network::from completes without
\* fault and yields a Network when any record kind is an empty collection,
\* the junctions included.
C5_ConstructionCompletes ==
    SomeKindEmpty => (pc # "Network::from" /\ output # Panic)

\* A route is under evaluation or has been evaluated, and its pattern i exists.
InPattern ==
    /\ pc \in {"loop", "Network::evaluate_route"}
    /\ eval.i < Len(eval.route.patterns)

RECURSIVE SumCounts(_)
SumCounts(patterns) ==
    IF patterns = <<>> THEN 0
    ELSE Head(patterns).count.n + SumCounts(Tail(patterns))

\* C7: for a pattern with multiplicity Count(n) evaluate_route emits at most
\* n hops (none when n = 0) before it moves to the next pattern, and a route
\* whose patterns all have a Count emits at most the sum of the counts.
C7_CountBoundsHops ==
    InPattern =>
        /\ eval.route.patterns[eval.i + 1].count.kind = "Count" =>
              eval.turn_num <= eval.route.patterns[eval.i + 1].count.n
        /\ (\A k \in 1 .. Len(eval.route.patterns) :
               eval.route.patterns[k].count.kind = "Count") =>
              Len(eval.v) <= SumCounts(eval.route.patterns)

\* C8: evaluate_route returns a hop list without panicking for every route
\* that Route::parse can return, start_link 0 included, on every network
\* satisfying the data-model invariants, a junction without exits included.
C8_EvaluateNeverPanics ==
    (pc = "Network::evaluate_route" /\ DataModelInvariants(network)) =>
        output # Panic


(***************************************************************************)
(* Network::route asked of the networks Network::from builds, for every    *)
(* junction id of the network and one id either side of the range.         *)
(***************************************************************************)
LoadedNetworks ==
    {Network_from(db).val : db \in {db \in Databases : Network_from(db).tag = "Ok"}}

InitTable ==
    /\ pc = "ready"
    /\ input = <<>>
    /\ output = None
    /\ network \in LoadedNetworks
    /\ builder = NetworkBuilder_new
    /\ eval = NoEval
    /\ walk = NoWalk

\* network.route(junc_id, src_junc, dest_junc, to_dest)
RouteHop ==
    /\ pc = "ready"
    /\ pc' = "Network::route"
    /\ \E junc_id, src_junc, dest_junc \in 0 .. (Len(network.junctions) + 1),
          to_dest \in BOOLEAN :
          /\ input' = [junc_id |-> junc_id, src_junc |-> src_junc,
                       dest_junc |-> dest_junc, to_dest |-> to_dest]
          /\ output' \in Network_route(network, junc_id, src_junc, dest_junc,
                                       to_dest)
    /\ UNCHANGED <<network, builder, eval, walk>>

NextTable == RouteHop

SpecTable == InitTable /\ [][NextTable]_vars

\* The junction ids of the network, 1 to N.
JunctionIds == 1 .. Len(network.junctions)

\* The hops of the table at the junction asked about that lead to the
\* destination when to_dest, to the source otherwise.
WantedHops ==
    {h \in network.routing :
        /\ h.junction = input.junc_id
        /\ h.dest_junc = IF input.to_dest THEN input.dest_junc
                         ELSE input.src_junc}

\* C20: for all junction ids in [1..N], route(junction_id, source, dest,
\* to_dest) returns Some(h) if and only if the routing table holds a hop with
\* h.junction = junction_id and h.dest_junction = dest (when to_dest) or
\* h.dest_junction = source (when not to_dest); the hop returned satisfies
\* that condition, and None is returned when no hop does.
C20_RouteLookup ==
    (/\ pc = "Network::route"
     /\ input.junc_id \in JunctionIds
     /\ input.src_junc \in JunctionIds
     /\ input.dest_junc \in JunctionIds) =>
        /\ output.tag = "Some" <=> WantedHops # {}
        /\ output.tag = "Some" => output.val \in WantedHops
        /\ WantedHops = {} => output = None

\* Asked away from the destination, the hop towards the source is returned
\* although the table has none towards the destination.
C20_Witness ==
    /\ pc = "Network::route"
    /\ input.junc_id \in JunctionIds
    /\ input.src_junc \in JunctionIds
    /\ input.dest_junc \in JunctionIds
    /\ ~input.to_dest
    /\ input.src_junc # input.dest_junc
    /\ output.tag = "Some"
    /\ output.val.dest_junc = input.src_junc
    /\ ~\E h \in network.routing :
          h.junction = input.junc_id /\ h.dest_junc = input.dest_junc

(***************************************************************************)
(* More claims about the loaded network, its spanning tree and its routing *)
(* table.                                                                  *)
(***************************************************************************)

\* C21: no hop in the routing table has exit_heading 270: for every pair of
\* junctions on a root-to-leaf path of the spanning tree, a junction and its
\* immediate child included, a hop is inserted only when the heading of the
\* exit used is not 270.
C21_NoHopHeads270 ==
    \A hop \in network.routing : hop.exit # 270

\* The exit headings of junction j of the network never step down.
ExitsAscend(net, j) ==
    \A k \in 2 .. Len(net.junctions[j].links) :
        net.junctions[j].links[k - 1].exit <= net.junctions[j].links[k].exit

\* C22: after the junctions_links rows are loaded by
\* set_junction_connections, every junction's sequence of exit headings is
\* non-decreasing in index order.
C22_ExitsOrdered ==
    (Loaded /\ pc = "ready") =>
        \A j \in 1 .. Len(network.junctions) : ExitsAscend(network, j)

\* A junction whose first exit belongs to a later link than its second: the
\* rows did not come in the order of the links.
C22_Witness ==
    /\ Loaded
    /\ pc = "ready"
    /\ \E j \in 1 .. Len(network.junctions) :
          /\ Len(network.junctions[j].links) = 2
          /\ network.junctions[j].links[1].link_id > network.junctions[j].links[2].link_id
          /\ network.junctions[j].links[1].exit < network.junctions[j].links[2].exit

\* Two junctions are the two ends of some link of the network.
JoinedByLink(net, a, b) ==
    \E k \in 1 .. Len(net.links) :
        \/ net.links[k].origin = Some(a) /\ net.links[k].destination = Some(b)
        \/ net.links[k].origin = Some(b) /\ net.links[k].destination = Some(a)

\* C23: in the spanning tree, the parent of every non-root node is the node
\* of the junction from which that junction was first discovered during the
\* DFS, so every parent-child pair of nodes is joined by a link of the
\* network.
C23_ParentIsDiscoverer ==
    (Loaded /\ pc = "ready" /\ DataModelInvariants(network)) =>
        \A n \in 2 .. Len(network.spanning_tree) :
            LET node == network.spanning_tree[n]
                parent == network.spanning_tree[node.parent]
            IN  JoinedByLink(network, parent.value.val, node.value.val)

\* evaluate_route is in its loop, there is a junction ahead, and the resolver
\* of the pattern returns usize::MAX there.
SentinelAhead ==
    /\ pc = "loop"
    /\ LET link == network.links[eval.link]
           junc == UpcomingJunction(link, eval.trav_dir)
       IN  /\ junc.tag = "Some"
           /\ get_junc(network, junc.val).tag = "Ok"
           /\ LET upcoming_junc == network.junctions[junc.val]
                  entry == find_entry(upcoming_junc,
                                      IncomingHeading(network, link, eval.trav_dir))
              IN  ResolveTurn(upcoming_junc, entry,
                              eval.route.patterns[eval.i + 1].turn)
                      = Ok(usize_MAX)

\* C24: when the resolver returns the "none" sentinel for a pattern,
\* evaluate_route emits no hop for that step, stops repeating that pattern
\* and continues with the next pattern from the same link and travel
\* direction; the hops emitted before are kept unchanged and in order, so the
\* result is the prefix of hops successfully taken.
C24_SentinelEndsPattern ==
    [][SentinelAhead =>
          /\ eval'.v = eval.v
          /\ eval'.link = eval.link
          /\ eval'.trav_dir = eval.trav_dir
          /\ IF eval.i + 1 < Len(eval.route.patterns)
             THEN pc' = "loop" /\ eval'.i = eval.i + 1 /\ eval'.turn_num = 0
             ELSE pc' = "Network::evaluate_route" /\ output' = Ok(eval.v)]_vars

\* The first pattern, an Always one, has emitted a hop and then met the
\* sentinel, and the second pattern is about to start.
C24_Witness ==
    /\ pc = "loop"
    /\ Len(eval.route.patterns) = 2
    /\ eval.route.patterns[1].count.kind = "Always"
    /\ eval.i = 1
    /\ eval.turn_num = 0
    /\ Len(eval.v) >= 1

\* A pass of the loop of evaluate_route that emits a hop.
HopEmitted ==
    /\ pc = "loop"
    /\ Len(eval'.v) = Len(eval.v) + 1
    /\ output' # Panic

\* C25: at each step of evaluate_route the upcoming junction is
\* link.destination when trav_dir = +1 and link.origin when trav_dir = -1;
\* after a hop is emitted at junction J onto link L, trav_dir becomes +1 if J
\* is L's origin and not its destination, -1 if J is L's destination (a
\* self-loop where J is both included), and is left unchanged if J is
\* neither endpoint.
C25_TravelDirection ==
    [][HopEmitted =>
          LET link == network.links[eval.link]
              J == Last(eval'.v)[1]
              L == network.links[eval'.link]
          IN  /\ eval.trav_dir = 1 => link.destination = Some(J)
              /\ eval.trav_dir = -1 => link.origin = Some(J)
              /\ eval'.trav_dir =
                    IF L.destination = Some(J) THEN -1
                    ELSE IF L.origin = Some(J) THEN 1
                    ELSE eval.trav_dir]_vars

\* The last hop went onto a link that leaves its junction and comes back to
\* it, and the link is travelled against its direction.
C25_Witness ==
    /\ pc \in {"loop", "Network::evaluate_route"}
    /\ Len(eval.v) >= 1
    /\ network.links[eval.link].origin = Some(Last(eval.v)[1])
    /\ network.links[eval.link].destination = Some(Last(eval.v)[1])
    /\ eval.trav_dir = -1

\* SpanningNode::num_nodes of node n: the node and the nodes under it.
RECURSIVE num_nodes(_, _), num_nodes_children(_, _, _)
num_nodes(tree, n) == 1 + num_nodes_children(tree, tree[n].children, 1)

num_nodes_children(tree, children, k) ==
    IF k > Len(children) THEN 0
    ELSE num_nodes(tree, children[k]) + num_nodes_children(tree, children, k + 1)

\* C26: every junction is the value of at most one SpanningNode, and the
\* number of nodes of the spanning tree equals the number of junctions the
\* traversal from junction 1 reaches, the root included (2 for two junctions
\* joined by one link).
C26_OneNodePerReachedJunction ==
    (Loaded /\ pc = "ready" /\ DataModelInvariants(network)) =>
        /\ \A m, n \in 1 .. Len(network.spanning_tree) :
              network.spanning_tree[m].value = network.spanning_tree[n].value
                  => m = n
        /\ num_nodes(network.spanning_tree, 1)
              = Cardinality(ConnectedFrom(network, {1}))

\* C27: in every Network produced by the loader or by NetworkBuilder::build
\* after any sequence of add_junction and create_link calls, ids are 1-based
\* and dense: get_junc(j.id) returns junction j and get_link(l.id) returns
\* link l for every junction and link the network holds.
C27_IdsDense ==
    pc = "ready" =>
        /\ \A j \in 1 .. Len(network.junctions) :
              get_junc(network, network.junctions[j].id) = Ok(j)
        /\ \A k \in 1 .. Len(network.links) :
              get_link(network, network.links[k].id) = Ok(network.links[k])

\* C28: a desired heading is normalised into [0, 360) before exits are
\* compared: find_exit_from_heading(h) and find_exit_from_heading(h + 360)
\* return the same index, and evaluate_route gives the same hops for
\* Turn::Heading(h) and Turn::Heading(h + 360).
C28_HeadingNormalised ==
    pc = "Junction::find_exit_from_heading" =>
        output = find_exit_from_heading(input.junc, input.heading + 360)

\* C29: the routing table never holds two hops with the same (junction,
\* dest_junction) pair and different exit_heading, so the hop returned by
\* route(...) does not depend on the iteration order of the hop set.
C29_OneExitPerPair ==
    /\ \A h1, h2 \in network.routing :
          (h1.junction = h2.junction /\ h1.dest_junc = h2.dest_junc)
              => h1.exit = h2.exit
    /\ pc = "Network::route" =>
          Network_route(network, input.junc_id, input.src_junc,
                        input.dest_junc, input.to_dest) = {output}

\* A hop is returned from a table that holds another hop of the same
\* junction, to another destination.
C29_Witness ==
    /\ pc = "Network::route"
    /\ output.tag = "Some"
    /\ \E h \in network.routing :
          /\ h.junction = output.val.junction
          /\ h.dest_junc # output.val.dest_junc

\* A pass of the loop of evaluate_route that pushes a hop onto v.
HopPushed ==
    /\ pc = "loop"
    /\ Len(eval'.v) = Len(eval.v) + 1

\* C30: every pair (junction_id, exit_index) emitted by evaluate_route has
\* exit_index smaller than the number of exits of that junction, and that
\* junction is an endpoint (origin or destination) of the link travelled on
\* immediately before the hop.
C30_HopsAreExits ==
    [][HopPushed =>
          LET link == network.links[eval.link]
              J == Last(eval'.v)[1]
              exit_index == Last(eval'.v)[2]
          IN  /\ SubSeq(eval'.v, 1, Len(eval.v)) = eval.v
              /\ get_junc(network, J).tag = "Ok"
              /\ exit_index >= 0
              /\ exit_index < Len(network.junctions[J].links)
              /\ link.origin = Some(J) \/ link.destination = Some(J)]_vars

\* The last hop took the last of several exits of its junction.
C30_Witness ==
    /\ pc \in {"loop", "Network::evaluate_route"}
    /\ output # Panic
    /\ Len(eval.v) >= 1
    /\ Last(eval.v)[2] >= 1
    /\ Last(eval.v)[2] = Len(network.junctions[Last(eval.v)[1]].links) - 1

=============================================================================
